---- MODULE Spec2Model ----
(***************************************************************************)
(* Model of the customer-support chat API of llm-observatory:              *)
(*   - ProviderManager (provider_manager.py): provider registry and the    *)
(*     fail-over loops complete_with_fallback / stream_with_fallback;      *)
(*   - ABTestingManager (ab_testing.py): experiment registry, variant      *)
(*     assignment and running metrics;                                     *)
(*   - the request pipeline of main.py (create_chat_completion and         *)
(*     create_chat_completion_stream).                                     *)
(* The specifications at the end share the variables; each runs one part   *)
(* and leaves the other parts' variables at their initial values.          *)
(***************************************************************************)
EXTENDS Integers, Sequences, FiniteSets, TLC

None == "None"

Min(a, b) == IF a < b THEN a ELSE b

RECURSIVE Pow2(_)
Pow2(k) == IF k <= 0 THEN 1 ELSE 2 * Pow2(k - 1)

IsPrefix(s, t) == Len(s) <= Len(t) /\ \A i \in 1..Len(s) : s[i] = t[i]

(***************************************************************************)
(* ProviderManager                                                         *)
(***************************************************************************)

\* The providers _initialize_providers can register, in registration order.
ProviderNames == <<"openai", "anthropic", "azure">>

\* A provider name a caller can send that is never registered.
UnknownProvider == "bogus"

\* supported_models of each provider class (the PRICING keys, in order).
OpenAIModels ==
    <<"gpt-4-turbo-preview", "gpt-4", "gpt-3.5-turbo", "gpt-3.5-turbo-16k">>

AnthropicModels ==
    <<"claude-3-opus-20240229", "claude-3-sonnet-20240229",
      "claude-3-haiku-20240307", "claude-2.1", "claude-2.0">>

\* providers/azure_provider.py is not part of the sources at hand.
AzureModels == <<"gpt-4", "gpt-35-turbo">>

\* Models a request can name (None: no model named).
RequestModels == {None, "gpt-4", "claude-2.1", "no-such-model"}

\* The ProviderError subclasses a provider raises besides RateLimitError.
ErrorKinds == {"AuthenticationError", "InvalidRequestError", "ProviderError"}

\* Chunks one provider stream yields at most.
MaxChunks == 2

VARIABLES
    providers,        \* ProviderManager.providers (its keys)
    fallback_order,   \* ProviderManager.fallback_order
    supported_models, \* provider name -> provider.supported_models
    enable_fallback,  \* settings.enable_fallback
    mode,             \* which router call is running: idle, complete, stream
    rpc,              \* position in the running call
    provider_name,    \* argument provider_name
    model,            \* argument model
    provider_order,   \* local provider_order
    attempt,          \* local attempt (enumerate index, from 1)
    provider_model,   \* local provider_model
    attempts,         \* local attempts
    last_error,       \* local last_error
    wait_time,        \* local wait_time
    response,         \* the value the call returned
    error,            \* the exception the call raised
    log,              \* what the call did so far: invocations, outcomes, sleeps, chunks
    experiments,      \* ABTestingManager.experiments
    metrics,          \* ABTestingManager.metrics: experiment id -> rows in insertion order
    now,              \* datetime.utcnow()
    last,             \* the engine call that ran last, and how it ended
    remembered,       \* one earlier assign_variant call and the registration it saw
    stopped,          \* the experiments stop_experiment was applied to
    hist,             \* per metrics row: what was recorded on it since it was created
    quota,            \* the calls one behaviour makes: recorded, scored, remembered
    pc,               \* where the request handler stands
    endpoint,         \* the handler that runs: complete or stream
    request,          \* the ChatRequest object as the handler sees it
    sent,             \* the ChatRequest as the caller sent it
    variant,          \* local variant
    cache,            \* the entries of the prompt cache: key -> response
    recorded,         \* record_metrics calls the handler made for this request
    result,           \* local response: the router's or the cached one, or the error
    served,           \* requests handled so far
    inflight          \* the requests handled concurrently: task -> where it stands

config == <<providers, fallback_order, supported_models, enable_fallback>>

callvars == <<mode, rpc, provider_name, model, provider_order, attempt,
              provider_model, attempts, last_error, wait_time, response,
              error, log>>

routervars == <<config, callvars>>

enginevars == <<experiments, metrics, now, last, remembered, stopped, hist,
                quota>>

pipevars == <<pc, endpoint, request, sent, variant, cache, recorded, result,
              served>>

taskvars == <<inflight>>

\* What the router leaves alone.
nonrouter == <<enginevars, pipevars, taskvars>>

vars == <<routervars, enginevars, pipevars, taskvars>>

Event(ev, p, m, s) == [ev |-> ev, provider |-> p, model |-> m, secs |-> s]

\* fallback_order after _initialize_providers when exactly the providers in S
\* were configured.
RegistrationOrder(S) == SelectSeq(ProviderNames, LAMBDA p : p \in S)

SupportedOf(p) ==
    IF p = "openai" THEN OpenAIModels
    ELSE IF p = "anthropic" THEN AnthropicModels
    ELSE AzureModels

InSeq(x, s) == \E i \in 1..Len(s) : s[i] = x

\* provider_order of complete_with_fallback / stream_with_fallback
ProviderOrderDup(pn) ==
    IF pn # None THEN <<pn>> \o fallback_order ELSE fallback_order

ProviderOrder(pn) ==
    IF pn # None
    THEN <<pn>> \o SelectSeq(fallback_order, LAMBDA p : p # pn)
    ELSE fallback_order

\* select_model_for_provider; "ValueError" stands for the raise of line 119.
SelectModelAsRequested(p, requested_model) ==
    LET supported == supported_models[p]
    IN IF requested_model # None
       THEN requested_model
       ELSE IF supported # <<>> THEN supported[1]
       ELSE "ValueError"

SelectModelForProvider(p, requested_model) ==
    LET supported == supported_models[p]
    IN IF requested_model # None /\ InSeq(requested_model, supported)
       THEN requested_model
       ELSE IF supported # <<>> THEN supported[1]
       ELSE "ValueError"

\* wait_time = min(2**attempt, 10)
WaitTimeOffByOne(k) == Min(Pow2(k + 1), 10)

WaitTime(k) == Min(Pow2(k), 10)

\* settings.enable_fallback and attempt < len(provider_order)
MoreCandidatesAlways(k) == k < Len(provider_order)

MoreCandidatesOffByOne(k) == enable_fallback /\ k <= Len(provider_order)

MoreCandidates(k) == enable_fallback /\ k < Len(provider_order)

\* attempts.append(f"{prov_name}: ...")
AppendAttemptErrorsOnly(as, p, reason) ==
    IF reason = "Rate limit exceeded" THEN as
    ELSE Append(as, [provider |-> p, reason |-> reason])

AppendAttempt(as, p, reason) == Append(as, [provider |-> p, reason |-> reason])

NoResponse == [provider |-> None, model |-> None]

\* last_error = None
NoLastError == [type |-> None, provider |-> None]

NoError == [kind |-> None, attempts |-> <<>>, last_error |-> NoLastError]

\* The registry after _initialize_providers.  OpenAIProvider and
\* AnthropicProvider report fixed lists; the Azure provider, whose class is not
\* among the sources, is a BaseProvider whose supported_models may be any
\* list, the empty one included.
RouterInit ==
    /\ \E S \in (SUBSET {ProviderNames[i] : i \in 1..Len(ProviderNames)}) \ {{}} :
          /\ providers = S
          /\ fallback_order = RegistrationOrder(S)
    /\ \E azure \in {AzureModels, <<>>} :
          supported_models =
              [p \in {ProviderNames[i] : i \in 1..Len(ProviderNames)} |->
                  IF p = "azure" THEN azure ELSE SupportedOf(p)]
    /\ enable_fallback \in BOOLEAN
    /\ mode = "idle"
    /\ rpc = "idle"
    /\ provider_name = None
    /\ model = None
    /\ provider_order = <<>>
    /\ attempt = 1
    /\ provider_model = None
    /\ attempts = <<>>
    /\ last_error = NoLastError
    /\ wait_time = 0
    /\ response = NoResponse
    /\ error = NoError
    /\ log = <<>>

CallOver == rpc \in {"returned", "raised"}

\* One call is followed from its entry to its return or raise; the router keeps
\* no state between calls.
BeginCall(md, pn, m) ==
    /\ rpc = "idle"
    /\ mode' = md
    /\ rpc' = "loop"
    /\ provider_name' = pn
    /\ model' = m
    /\ provider_order' = ProviderOrder(pn)
    /\ attempt' = 1
    /\ provider_model' = None
    /\ attempts' = <<>>
    /\ last_error' = NoLastError
    /\ wait_time' = 0
    /\ response' = NoResponse
    /\ error' = NoError
    /\ log' = <<>>
    /\ UNCHANGED <<config, nonrouter>>

\* complete_with_fallback is entered.  Its one caller, create_chat_completion,
\* has get_provider reject a provider name that is not registered before the
\* call is made, so provider_name is None or a registered name.
StartComplete ==
    \E pn \in {None} \cup providers, m \in RequestModels :
        BeginCall("complete", pn, m)

\* stream_with_fallback is entered; event_generator passes request.provider
\* as it came.
StartStream ==
    \E pn \in {None, UnknownProvider} \cup providers, m \in RequestModels :
        BeginCall("stream", pn, m)

\* for attempt, prov_name in enumerate(provider_order, 1):
\*     if prov_name not in self.providers: continue
SkipUnregistered ==
    /\ rpc = "loop"
    /\ attempt <= Len(provider_order)
    /\ provider_order[attempt] \notin providers
    /\ attempt' = attempt + 1
    /\ UNCHANGED <<config, nonrouter, mode, rpc, provider_name, model, provider_order,
                   provider_model, attempts, last_error, wait_time, response,
                   error, log>>

\* provider_model = select_model_for_provider(...), then provider.complete or
\* provider.stream_complete is called.  The ValueError of select_model_for_provider
\* is raised outside the try and leaves the call.
CallProvider ==
    /\ rpc = "loop"
    /\ attempt <= Len(provider_order)
    /\ provider_order[attempt] \in providers
    /\ LET p == provider_order[attempt]
           m == SelectModelForProvider(p, model)
       IN IF m = "ValueError"
          THEN /\ rpc' = "raised"
               /\ error' = [kind |-> "ValueError", attempts |-> <<>>,
                            last_error |-> NoLastError]
               /\ UNCHANGED <<provider_model, log>>
          ELSE /\ rpc' = "call"
               /\ provider_model' = m
               /\ log' = Append(log, Event("invoke", p, m, 0))
               /\ UNCHANGED error
    /\ UNCHANGED <<config, nonrouter, mode, provider_name, model, provider_order, attempt,
                   attempts, last_error, wait_time, response>>

\* provider.complete returned: return response
CompleteReturns ==
    /\ mode = "complete"
    /\ rpc = "call"
    /\ LET p == provider_order[attempt]
       IN /\ response' = [provider |-> p, model |-> provider_model]
          /\ log' = Append(log, Event("ok", p, provider_model, 0))
    /\ rpc' = "returned"
    /\ UNCHANGED <<config, nonrouter, mode, provider_name, model, provider_order, attempt,
                   provider_model, attempts, last_error, wait_time, error>>

\* async for chunk in provider.stream_complete(...): yield chunk
StreamYields ==
    /\ mode = "stream"
    /\ rpc = "call"
    /\ LET p == provider_order[attempt]
       IN /\ Len(SelectSeq(log, LAMBDA e : e.ev = "chunk" /\ e.provider = p))
                < MaxChunks
          /\ log' = Append(log, Event("chunk", p, provider_model, 0))
    /\ UNCHANGED <<config, nonrouter, mode, rpc, provider_name, model, provider_order,
                   attempt, provider_model, attempts, last_error, wait_time,
                   response, error>>

\* the provider's stream ended: return  # Success, exit
StreamReturns ==
    /\ mode = "stream"
    /\ rpc = "call"
    /\ rpc' = "returned"
    /\ log' = Append(log, Event("ok", provider_order[attempt], provider_model, 0))
    /\ UNCHANGED <<config, nonrouter, mode, provider_name, model, provider_order, attempt,
                   provider_model, attempts, last_error, wait_time, response,
                   error>>

\* except RateLimitError as e: (lines 191-206 and 287-296; the streaming loop
\* keeps no attempts list)
RateLimited ==
    /\ rpc = "call"
    /\ LET p == provider_order[attempt]
       IN /\ last_error' = [type |-> "RateLimitError", provider |-> p]
          /\ attempts' = IF mode = "complete"
                         THEN AppendAttempt(attempts, p, "Rate limit exceeded")
                         ELSE attempts
          /\ IF MoreCandidates(attempt)
             THEN /\ wait_time' = WaitTime(attempt)
                  /\ rpc' = "sleep"
                  /\ log' = log \o <<Event("ratelimit", p, None, 0),
                                     Event("sleep", p, None, WaitTime(attempt))>>
             ELSE /\ rpc' = "break"
                  /\ log' = Append(log, Event("ratelimit", p, None, 0))
                  /\ UNCHANGED wait_time
    /\ UNCHANGED <<config, nonrouter, mode, provider_name, model, provider_order, attempt,
                   provider_model, response, error>>

\* await asyncio.sleep(wait_time) is over: continue
SleepOver ==
    /\ rpc = "sleep"
    /\ rpc' = "loop"
    /\ attempt' = attempt + 1
    /\ UNCHANGED <<config, nonrouter, mode, provider_name, model, provider_order,
                   provider_model, attempts, last_error, wait_time, response,
                   error, log>>

\* except Exception as e: (lines 208-216 and 298-305)
ProviderFails ==
    /\ rpc = "call"
    /\ \E k \in ErrorKinds :
          LET p == provider_order[attempt]
          IN /\ last_error' = [type |-> k, provider |-> p]
             /\ attempts' = IF mode = "complete"
                            THEN AppendAttempt(attempts, p, k)
                            ELSE attempts
             /\ log' = Append(log, Event("error", p, k, 0))
    /\ IF MoreCandidates(attempt)
       THEN /\ rpc' = "loop"
            /\ attempt' = attempt + 1
       ELSE /\ rpc' = "break"
            /\ UNCHANGED attempt
    /\ UNCHANGED <<config, nonrouter, mode, provider_name, model, provider_order,
                   provider_model, wait_time, response, error>>

\* The loop is left without a return: raise Exception("All providers failed...")
\* or raise Exception("All streaming providers failed. Last error: ...")
AllProvidersFailed ==
    /\ \/ rpc = "break"
       \/ rpc = "loop" /\ attempt > Len(provider_order)
    /\ rpc' = "raised"
    /\ error' = IF mode = "complete"
                THEN [kind |-> "AllProvidersFailed", attempts |-> attempts,
                      last_error |-> last_error]
                ELSE [kind |-> "AllStreamingProvidersFailed", attempts |-> <<>>,
                      last_error |-> last_error]
    /\ UNCHANGED <<config, nonrouter, mode, provider_name, model, provider_order, attempt,
                   provider_model, attempts, last_error, wait_time, response,
                   log>>

(***************************************************************************)
(* Claims about the router                                                 *)
(***************************************************************************)

EventsOf(kind) == SelectSeq(log, LAMBDA e : e.ev = kind)

\* The providers whose complete / stream_complete was called, in call order.
Invoked == [i \in 1..Len(EventsOf("invoke")) |-> EventsOf("invoke")[i].provider]

\* The failures met so far, as the aggregate error is to list them.
Failures == SelectSeq(log, LAMBDA e : e.ev \in {"ratelimit", "error"})

FailureReason(e) == IF e.ev = "ratelimit" THEN "Rate limit exceeded" ELSE e.model

\* The attempt order the claim describes: the caller's provider first, then the
\* others in registration order; names that are not registered are no providers.
ExpectedOrder ==
    LET full == IF provider_name # None
                THEN <<provider_name>> \o
                     SelectSeq(RegistrationOrder(providers),
                               LAMBDA p : p # provider_name)
                ELSE RegistrationOrder(providers)
    IN SelectSeq(full, LAMBDA p : p \in providers)

\* C1: in complete_with_fallback the providers invoked form a prefix of the
\* attempt order, none is invoked twice, and a success is the last thing that
\* happens: the call returns that provider's response.
C1_InvokedPrefixOfOrder ==
    mode = "complete" =>
        /\ IsPrefix(Invoked, ExpectedOrder)
        /\ \A i, j \in 1..Len(Invoked) : i # j => Invoked[i] # Invoked[j]
        /\ \A i \in 1..Len(log) :
              log[i].ev = "ok" =>
                  /\ i = Len(log)
                  /\ rpc = "returned"
                  /\ response = [provider |-> log[i].provider,
                                 model |-> log[i].model]
                  /\ log[i].provider = Invoked[Len(Invoked)]

\* C1 witness: a call named a provider that is not first in registration
\* order, a first provider failed, the next one succeeded and the call returned.
C1_Witness ==
    /\ mode = "complete"
    /\ rpc = "returned"
    /\ provider_name # None
    /\ provider_name # fallback_order[1]
    /\ Len(Invoked) >= 2
    /\ Invoked[1] = provider_name

\* C2: registry A then B, fallback enabled, A rate limited and B succeeding:
\* the call returns B's response after exactly invoke A, sleep 2 s, invoke B.
C2_RateLimitThenSuccess ==
    LET A == fallback_order[1]
        B == fallback_order[2]
    IN ( /\ mode = "complete"
         /\ enable_fallback
         /\ Len(fallback_order) = 2
         /\ CallOver
         /\ \E i \in 1..Len(log) : log[i].ev = "ratelimit" /\ log[i].provider = A
         /\ \E i \in 1..Len(log) : log[i].ev = "ok" /\ log[i].provider = B )
       => /\ rpc = "returned"
          /\ response.provider = B
          /\ Invoked = <<A, B>>
          /\ Len(log) = 5
          /\ log[1].ev = "invoke" /\ log[1].provider = A
          /\ log[2].ev = "ratelimit" /\ log[2].provider = A
          /\ log[3].ev = "sleep" /\ log[3].secs = 2
          /\ log[4].ev = "invoke" /\ log[4].provider = B
          /\ log[5].ev = "ok" /\ log[5].provider = B

C2_Witness ==
    /\ mode = "complete"
    /\ enable_fallback
    /\ Len(fallback_order) = 2
    /\ rpc = "returned"
    /\ Len(EventsOf("ratelimit")) = 1
    /\ EventsOf("ratelimit")[1].provider = fallback_order[1]
    /\ response.provider = fallback_order[2]
    /\ Len(EventsOf("sleep")) = 1

\* C3: when complete_with_fallback has ended and no provider it invoked
\* succeeded, it raised the aggregate error, whose attempts name exactly the
\* invoked providers in order, each with its failure reason, and which carries
\* the last raw error.
C3_AggregateError ==
    ( /\ mode = "complete"
      /\ CallOver
      /\ EventsOf("ok") = <<>> )
    => /\ rpc = "raised"
       /\ error.kind = "AllProvidersFailed"
       /\ Len(error.attempts) = Len(Invoked)
       /\ Len(Failures) = Len(Invoked)
       /\ \A i \in 1..Len(Invoked) :
             /\ error.attempts[i].provider = Invoked[i]
             /\ Failures[i].provider = Invoked[i]
             /\ error.attempts[i].reason = FailureReason(Failures[i])
       /\ Len(Invoked) >= 1
       /\ error.last_error.provider = Invoked[Len(Invoked)]
       /\ error.last_error.type =
             ( IF Failures[Len(Failures)].ev = "ratelimit"
               THEN "RateLimitError" ELSE Failures[Len(Failures)].model )

\* C3 witness: three providers were invoked, a rate limit among the failures,
\* and the call raised.
C3_Witness ==
    /\ mode = "complete"
    /\ rpc = "raised"
    /\ Len(Invoked) = 3
    /\ Len(EventsOf("ratelimit")) >= 1
    /\ Len(EventsOf("error")) >= 1

\* C4: in stream_with_fallback no provider is started after a chunk has been
\* yielded, so every chunk the caller receives is of one provider.
C4_NoFailoverAfterChunk ==
    mode = "stream" =>
        /\ \A i, j \in 1..Len(log) :
              (i < j /\ log[i].ev = "chunk") => log[j].ev # "invoke"
        /\ \A i, j \in 1..Len(log) :
              (log[i].ev = "chunk" /\ log[j].ev = "chunk")
                  => log[i].provider = log[j].provider

RouterNext ==
    \/ StartComplete
    \/ StartStream
    \/ SkipUnregistered
    \/ CallProvider
    \/ CompleteReturns
    \/ StreamYields
    \/ StreamReturns
    \/ RateLimited
    \/ SleepOver
    \/ ProviderFails
    \/ AllProvidersFailed

\* C12: complete_with_fallback raises nothing but the aggregate error: a
\* failure met while one candidate provider is handled, the failure to resolve
\* its model included, never leaves the call.
C12_OnlyAggregateEscapes ==
    (mode = "complete" /\ rpc = "raised") => error.kind = "AllProvidersFailed"

\* await provider.complete(...) / async for chunk in provider.stream_complete(...)
\* on a provider that never answers: the await is not bounded (no
\* asyncio.wait_for, no timeout argument), so the call stays where it is.
ProviderHangs ==
    /\ rpc = "call"
    /\ rpc' = "hung"
    /\ log' = Append(log, Event("hang", provider_order[attempt], provider_model, 0))
    /\ UNCHANGED <<config, nonrouter, mode, provider_name, model, provider_order,
                   attempt, provider_model, attempts, last_error, wait_time,
                   response, error>>

\* The router with providers that may hang.
HangNext ==
    \/ RouterNext
    \/ ProviderHangs

\* C13: a call of complete_with_fallback or stream_with_fallback that has
\* started comes to an end, by a return or by the aggregate error, also when a
\* provider it awaits never answers.
C13_NeverWaitsForever == (mode # "idle") ~> CallOver

\* The number of providers invoked when the i-th event of the log happened.
InvokedBy(i) == Len(SelectSeq(SubSeq(log, 1, i), LAMBDA e : e.ev = "invoke"))

\* C21: every provider invoked by complete_with_fallback or
\* stream_with_fallback is passed a model of its own supported list: the
\* requested model when the provider supports it, else the provider's first
\* supported model.
C21_ModelIsSupported ==
    \A i \in 1..Len(log) :
        log[i].ev = "invoke" =>
            LET supported == supported_models[log[i].provider]
            IN /\ InSeq(log[i].model, supported)
               /\ log[i].model =
                     ( IF model # None /\ InSeq(model, supported)
                       THEN model ELSE supported[1] )

\* C21 witness: the first provider was called with the requested model, it
\* failed, and the fallback provider, which does not support the requested
\* model, was called with the first model of its own list.
C21_Witness ==
    /\ model # None
    /\ Len(EventsOf("invoke")) >= 2
    /\ EventsOf("invoke")[1].model = model
    /\ ~InSeq(model, supported_models[EventsOf("invoke")[2].provider])
    /\ EventsOf("invoke")[2].model # model

\* C22: every backoff sleep lasts min(2^k, 10) seconds, k being the number of
\* providers invoked so far in the call, also when the caller's provider name
\* is not registered and was skipped.
C22_BackoffCountsInvocations ==
    \A i \in 1..Len(log) :
        log[i].ev = "sleep" => log[i].secs = Min(Pow2(InvokedBy(i)), 10)

\* C23: complete_with_fallback sleeps only right after a RateLimitError, with
\* fallback enabled and a candidate left; after any other provider error the
\* next candidate is invoked at once; it never sleeps after the last candidate
\* nor before the first invocation.
C23_SleepsOnlyAfterRateLimit ==
    mode = "complete" =>
        /\ \A i \in 1..Len(log) :
              log[i].ev = "sleep" =>
                  /\ i >= 2
                  /\ log[i - 1].ev = "ratelimit"
                  /\ enable_fallback
                  /\ InvokedBy(i) >= 1
                  /\ InvokedBy(i) < Len(ExpectedOrder)
        /\ \A i \in 1..Len(log) :
              (log[i].ev = "error" /\ i < Len(log)) => log[i + 1].ev = "invoke"

\* C23 witness: three candidates; the first was rate limited and slept on,
\* the second failed otherwise, the last was rate limited and the call raised.
C23_Witness ==
    /\ mode = "complete"
    /\ rpc = "raised"
    /\ Len(Invoked) = 3
    /\ Len(log) = 7
    /\ log[2].ev = "ratelimit"
    /\ log[3].ev = "sleep"
    /\ log[5].ev = "error"
    /\ log[6].ev = "invoke"
    /\ log[7].ev = "ratelimit"

\* C24: with fallback disabled either call invokes at most one provider and
\* never sleeps; the first failure is the last thing that happens and the
\* call ends with that failure as its error.
C24_NoFallbackOneProvider ==
    ~enable_fallback =>
        /\ Len(Invoked) <= 1
        /\ EventsOf("sleep") = <<>>
        /\ Failures # <<>> =>
              /\ Len(Failures) = 1
              /\ log[Len(log)] = Failures[1]
              /\ rpc \in {"break", "raised"}
              /\ rpc = "raised" =>
                    /\ error.kind \in {"AllProvidersFailed",
                                       "AllStreamingProvidersFailed"}
                    /\ error.last_error.provider = Failures[1].provider
                    /\ error.last_error.type =
                          ( IF Failures[1].ev = "ratelimit"
                            THEN "RateLimitError" ELSE Failures[1].model )

\* C24 witness: fallback disabled, a second provider registered, the first
\* provider rate limited and the call raised.
C24_Witness ==
    /\ ~enable_fallback
    /\ Len(fallback_order) >= 2
    /\ rpc = "raised"
    /\ Len(EventsOf("ratelimit")) = 1
    /\ Len(Invoked) = 1

\* C27: when stream_with_fallback raises after every provider failed and no
\* chunk was yielded, the error names every provider that was attempted, each
\* with its failure reason: in a list of attempts or as the last error.
C27_StreamErrorNamesAttempts ==
    ( /\ mode = "stream"
      /\ rpc = "raised"
      /\ error.kind = "AllStreamingProvidersFailed"
      /\ EventsOf("chunk") = <<>> )
    => \A i \in 1..Len(Failures) :
          \/ \E j \in 1..Len(error.attempts) :
                /\ error.attempts[j].provider = Failures[i].provider
                /\ error.attempts[j].reason = FailureReason(Failures[i])
          \/ /\ error.last_error.provider = Failures[i].provider
             /\ error.last_error.type =
                   ( IF Failures[i].ev = "ratelimit"
                     THEN "RateLimitError" ELSE Failures[i].model )

(***************************************************************************)
(* Exact arithmetic on non-negative rationals [n, d], kept in lowest terms *)
(***************************************************************************)

RECURSIVE GCD(_, _)
GCD(a, b) == IF b = 0 THEN a ELSE GCD(b, a % b)

Rat(n, d) == LET g == GCD(n, d) IN [n |-> n \div g, d |-> d \div g]

RatOfInt(k) == [n |-> k, d |-> 1]

RatAdd(x, y) == Rat(x.n * y.d + y.n * x.d, x.d * y.d)

RatSub(x, y) == Rat(x.n * y.d - y.n * x.d, x.d * y.d)

RatMul(x, y) == Rat(x.n * y.n, x.d * y.d)

RatDivInt(x, k) == Rat(x.n, x.d * k)

RatLess(x, y) == x.n * y.d < y.n * x.d

RatMin(x, y) == IF RatLess(x, y) THEN x ELSE y

(***************************************************************************)
(* ABTestingManager                                                        *)
(***************************************************************************)

\* Optional[float] user_satisfaction = None
NoSatisfaction == [n |-> 0, d |-> 0]

\* ExperimentVariant objects; temperature in tenths, max_tokens 0 for None.
VariantControl ==
    [variant_id |-> "control", provider |-> "openai", model |-> "gpt-4",
     temperature |-> 7, max_tokens |-> 0, system_prompt |-> None]

VariantA ==
    [variant_id |-> "variant_a", provider |-> "anthropic",
     model |-> "claude-3-sonnet-20240229", temperature |-> 5,
     max_tokens |-> 256, system_prompt |-> "Be brief."]

VariantB ==
    [variant_id |-> "variant_b", provider |-> "azure", model |-> "gpt-4",
     temperature |-> 7, max_tokens |-> 0, system_prompt |-> None]

\* assign_variant's None
NoVariant ==
    [variant_id |-> None, provider |-> None, model |-> None,
     temperature |-> 0, max_tokens |-> 0, system_prompt |-> None]

\* The Experiment objects create_experiment is called with.  traffic_split is
\* in units of 1/10000; end_date is <<>> for None.
ExpFixture ==
    [experiment_id |-> "test_exp_1",
     variants |-> <<VariantControl, VariantA>>,
     traffic_split |-> [v \in {"control", "variant_a"} |-> 5000],
     end_date |-> <<>>, is_active |-> TRUE]

\* is_active false
ExpInactive == [ExpFixture EXCEPT !.is_active = FALSE]

\* a split that sums to 0.8, and one that sums to 1.2
ExpSplitShort ==
    [ExpFixture EXCEPT !.traffic_split =
        [v \in {"control", "variant_a"} |-> IF v = "control" THEN 3000 ELSE 5000]]

ExpSplitLong ==
    [ExpFixture EXCEPT !.traffic_split = [v \in {"control", "variant_a"} |-> 6000]]

\* a split whose keys are not the variant ids
ExpSplitKeys ==
    [ExpFixture EXCEPT !.traffic_split = [v \in {"control", "variant_b"} |-> 5000]]

\* the same id with other variants, a split that sums to 0.99 and an end_date
ExpOtherVariants ==
    [experiment_id |-> "test_exp_1",
     variants |-> <<VariantB, VariantControl>>,
     traffic_split |->
        [v \in {"variant_b", "control"} |-> IF v = "control" THEN 5000 ELSE 4900],
     end_date |-> <<0>>, is_active |-> TRUE]

\* three variants with the split 0.1 / 0.2 / 0.7, and three of which the
\* second has the fraction 0
ExpThreeWay ==
    [experiment_id |-> "test_exp_1",
     variants |-> <<VariantControl, VariantA, VariantB>>,
     traffic_split |->
        [v \in {"control", "variant_a", "variant_b"} |->
            IF v = "control" THEN 1000 ELSE IF v = "variant_a" THEN 2000 ELSE 7000],
     end_date |-> <<>>, is_active |-> TRUE]

ExpZeroShare ==
    [ExpThreeWay EXCEPT !.traffic_split =
        [v \in {"control", "variant_a", "variant_b"} |->
            IF v = "variant_a" THEN 0 ELSE 5000]]

ExperimentInputs ==
    {ExpFixture, ExpInactive, ExpSplitShort, ExpSplitLong, ExpSplitKeys,
     ExpOtherVariants}

\* Identifiers the operations are called with; the last of each is never registered.
ExperimentIds == {"test_exp_1", "no_such_exp"}

VariantIds == {"control", "variant_a", "variant_b", "no_such_variant"}

UserIds == {"user_0", "user_123", "user_65"}

\* with a user whose bucket is 3000, the end of the second share of 0.1 / 0.2 / 0.7
WalkUserIds == UserIds \cup {"user_8668"}

\* (tokens, cost in 1/1000 USD, latency_ms, error) of record_metrics calls
MetricSamples ==
    { [tokens |-> 100, cost |-> 10, latency_ms |-> 500, error |-> FALSE],
      [tokens |-> 0, cost |-> 0, latency_ms |-> 800, error |-> TRUE] }

\* score of record_satisfaction calls
Scores == { RatOfInt(0), Rat(4, 5) }

\* record_metrics calls held in the rows at one time when the rows are what is
\* examined; record_metrics and record_satisfaction calls interleaved with the
\* other calls otherwise; the clock's last value.
MaxRecorded == 3

MaxInterleaved == 1

MaxTime == 1

\* record_satisfaction calls on the rows where they are what is examined
MaxScored == 2

\* record_metrics calls each followed by a record_satisfaction call
MaxPaired == 3

\* int(sha256(f"{experiment_id}:{user_id}:{salt}").hexdigest()[:16], 16) % 10000
\* for salt "default-salt" (settings.ab_test_salt), as hashlib computes it.
HashBucket(e, u) ==
    IF e = "test_exp_1" /\ u = "user_123" THEN 8393
    ELSE IF e = "test_exp_1" /\ u = "user_0" THEN 51
    ELSE IF e = "test_exp_1" /\ u = "user_65" THEN 9960
    ELSE IF e = "test_exp_1" /\ u = "user_8668" THEN 3000
    ELSE IF e = "no_such_exp" /\ u = "user_8668" THEN 2373
    ELSE IF e = "no_such_exp" /\ u = "user_123" THEN 3864
    ELSE IF e = "no_such_exp" /\ u = "user_0" THEN 1631
    ELSE 232

\* 0.99 <= total_traffic <= 1.01, in units of 1/10000
MinTotalTraffic == 9900

MaxTotalTraffic == 10100

\* dict assignment d[k] = x
Put(f, k, x) == [y \in DOMAIN f \cup {k} |-> IF y = k THEN x ELSE f[y]]

EmptyDict == <<>>

\* ExperimentMetrics(variant_id=...)
ZeroRow(v) ==
    [variant_id |-> v, total_requests |-> 0, total_tokens |-> 0,
     total_cost |-> 0, avg_latency_ms |-> RatOfInt(0),
     error_rate |-> RatOfInt(0), user_satisfaction |-> NoSatisfaction]

HasRow(rows, v) == \E i \in 1..Len(rows) : rows[i].variant_id = v

RowIndex(rows, v) == CHOOSE i \in 1..Len(rows) : rows[i].variant_id = v

\* rows[v] = row on an insertion-ordered dict
PutRow(rows, row) ==
    IF HasRow(rows, row.variant_id)
    THEN [rows EXCEPT ![RowIndex(rows, row.variant_id)] = row]
    ELSE Append(rows, row)

\* rows[v]; the callers check that the row exists
RowOf(rows, v) == IF HasRow(rows, v) THEN rows[RowIndex(rows, v)] ELSE ZeroRow(v)

RECURSIVE SumOver(_, _)
SumOver(f, S) ==
    IF S = {} THEN 0
    ELSE LET k == CHOOSE k \in S : TRUE IN f[k] + SumOver(f, S \ {k})

\* sum(experiment.traffic_split.values())
TotalTraffic(x) == SumOver(x.traffic_split, DOMAIN x.traffic_split)

VariantIdsOf(x) == {x.variants[i].variant_id : i \in 1..Len(x.variants)}

\* The two validations of create_experiment
CreateAcceptsSumOnly(x) ==
    MinTotalTraffic <= TotalTraffic(x) /\ TotalTraffic(x) <= MaxTotalTraffic

CreateAccepts(x) ==
    /\ MinTotalTraffic <= TotalTraffic(x) /\ TotalTraffic(x) <= MaxTotalTraffic
    /\ VariantIdsOf(x) = DOMAIN x.traffic_split

\* for variant in experiment.variants: self.metrics[id][variant.variant_id] = ...
RECURSIVE InitRows(_, _, _)
InitRows(rows, variants, i) ==
    IF i > Len(variants) THEN rows
    ELSE InitRows(PutRow(rows, ZeroRow(variants[i].variant_id)), variants, i + 1)

RowsOf(e) == IF e \in DOMAIN metrics THEN metrics[e] ELSE <<>>

\* What was recorded on a row since it was created: the record_metrics calls
\* and their sums, the record_satisfaction calls and the sum of their scores,
\* and whether so far every record_metrics call was followed by exactly one
\* record_satisfaction call.
NoHist ==
    [calls |-> 0, tokens |-> 0, latency |-> 0, errors |-> 0, scores |-> 0,
     sum |-> RatOfInt(0), paired |-> TRUE]

HistOf(e, v) == IF <<e, v>> \in DOMAIN hist THEN hist[<<e, v>>] ELSE NoHist

\* The call that last wrote or tried to write the engine's maps, and how it
\* ended: "True"/"False" returned by create_experiment, "done", "ignored" for
\* an early return, or the exception raised.
Last(op, outcome) == [op |-> op, outcome |-> outcome]

NoMemory ==
    [experiment_id |-> None, user_id |-> None, variant_id |-> None,
     experiment |-> <<>>]

EngineInit ==
    /\ experiments = EmptyDict
    /\ metrics = EmptyDict
    /\ now = 0
    /\ last = Last("__init__", "done")
    /\ remembered = NoMemory
    /\ stopped = {}
    /\ hist = EmptyDict

\* ABTestingManager() is constructed anew with the same settings.ab_test_salt.
NewInstance ==
    /\ experiments # EmptyDict
    /\ experiments' = EmptyDict
    /\ metrics' = EmptyDict
    /\ last' = Last("__init__", "done")
    /\ stopped' = {}
    /\ hist' = EmptyDict
    /\ UNCHANGED <<now, remembered, quota>>

\* The clock moves on.
Tick ==
    /\ now < MaxTime
    /\ now' = now + 1
    /\ UNCHANGED <<experiments, metrics, last, remembered, stopped, hist,
                   quota>>

CreateExperiment(x) ==
    /\ IF CreateAccepts(x)
       THEN /\ experiments' = Put(experiments, x.experiment_id, x)
            /\ metrics' = Put(metrics, x.experiment_id,
                              InitRows(RowsOf(x.experiment_id), x.variants, 1))
            /\ hist' = [k \in DOMAIN hist \cup
                               {<<x.experiment_id, v>> : v \in VariantIdsOf(x)} |->
                           IF k[1] = x.experiment_id /\ k[2] \in VariantIdsOf(x)
                           THEN NoHist ELSE hist[k]]
            /\ last' = Last("create_experiment", "True")
       ELSE /\ last' = Last("create_experiment", "False")
            /\ UNCHANGED <<experiments, metrics, hist>>
    /\ UNCHANGED <<now, remembered, stopped, quota>>

\* cumulative is a Python float.  A float that stands for k/10000 is written
\* [units |-> k, excess |-> x]: x = 0 when it is the double k / 10000.0, and
\* x = 1 when it is a double above that one and below (k + 1) / 10000.0.
\* cumulative = 0.0
FloatZero == [units |-> 0, excess |-> 0]

\* cumulative += fraction, as IEEE-754 double addition gives it for the
\* fractions of the experiments above: 0.1 + 0.2 is 0.30000000000000004, above
\* 3000 / 10000.0; every other sum formed is the double of its decimal value
\* (0.5 + 0.5, 0.49 + 0.5, 0.5 + 0.0, 0.30000000000000004 + 0.7 = 1.0, ...).
FloatAdd(c, fraction) ==
    [units |-> c.units + fraction,
     excess |-> IF c = [units |-> 1000, excess |-> 0] /\ fraction = 2000
                THEN 1 ELSE 0]

\* random_value < cumulative, with random_value = bucket / 10000.0
FloatLess(bucket, c) ==
    bucket < c.units \/ (bucket = c.units /\ c.excess > 0)

\* The walk of lines 96-107
RECURSIVE WalkSplit(_, _, _, _)
WalkSplit(exp, i, cumulative, random_value) ==
    IF i > Len(exp.variants) THEN exp.variants[1]
    ELSE LET c == FloatAdd(cumulative,
                           exp.traffic_split[exp.variants[i].variant_id])
         IN IF FloatLess(random_value, c) THEN exp.variants[i]
            ELSE WalkSplit(exp, i + 1, c, random_value)

\* assign_variant that sends a user to the variant with fewer requests so far
AssignVariantBalanced(e, u) ==
    IF e \notin DOMAIN experiments THEN NoVariant
    ELSE LET exp == experiments[e]
             rows == RowsOf(e)
             least == CHOOSE i \in 1..Len(exp.variants) :
                         \A j \in 1..Len(exp.variants) :
                            RowOf(rows, exp.variants[i].variant_id).total_requests
                            < RowOf(rows, exp.variants[j].variant_id).total_requests
                            \/ (RowOf(rows, exp.variants[i].variant_id).total_requests
                                = RowOf(rows, exp.variants[j].variant_id).total_requests
                                /\ i <= j)
         IN IF ~exp.is_active THEN NoVariant
            ELSE IF exp.end_date # <<>> /\ now > exp.end_date[1] THEN NoVariant
            ELSE exp.variants[least]

\* assign_variant without the end_date test of lines 84-87
AssignVariantNoEndDate(e, u) ==
    IF e \notin DOMAIN experiments THEN NoVariant
    ELSE LET exp == experiments[e]
         IN IF ~exp.is_active THEN NoVariant
            ELSE WalkSplit(exp, 1, FloatZero, HashBucket(e, u))

\* assign_variant
AssignVariant(e, u) ==
    IF e \notin DOMAIN experiments THEN NoVariant
    ELSE LET exp == experiments[e]
         IN IF ~exp.is_active THEN NoVariant
            ELSE IF exp.end_date # <<>> /\ now > exp.end_date[1] THEN NoVariant
            ELSE WalkSplit(exp, 1, FloatZero, HashBucket(e, u))

AssignVariantCall(e, u) ==
    /\ \/ UNCHANGED remembered
       \/ /\ quota.remembered > 0
          /\ remembered = NoMemory
          /\ AssignVariant(e, u) # NoVariant
          /\ remembered' = [experiment_id |-> e, user_id |-> u,
                            variant_id |-> AssignVariant(e, u).variant_id,
                            experiment |-> <<experiments[e]>>]
    /\ UNCHANGED <<experiments, metrics, now, last, stopped, hist, quota>>

\* requests counted in all rows together
RECURSIVE RequestsIn(_, _)
RequestsIn(rows, i) ==
    IF i > Len(rows) THEN 0 ELSE rows[i].total_requests + RequestsIn(rows, i + 1)

TotalRecorded == SumOver([e \in DOMAIN metrics |-> RequestsIn(metrics[e], 1)],
                         DOMAIN metrics)

\* record_satisfaction calls made on the rows that exist
TotalScored == SumOver([k \in DOMAIN hist |-> hist[k].scores], DOMAIN hist)

\* the two membership tests of record_metrics and of record_satisfaction
RowKnownExperimentOnly(e, v) == e \in DOMAIN metrics

RowKnown(e, v) == e \in DOMAIN metrics /\ HasRow(metrics[e], v)

\* metrics = self.metrics[experiment_id][variant_id]: the row object itself,
\* read and written within one call that never yields to the event loop
RowAsCreated(e, v) == ZeroRow(v)

LiveRow(e, v) == RowOf(metrics[e], v)

\* (old * n + x) / (n + 1)
RunningAverageNoWeight(old, n, x) == RatDivInt(RatAdd(old, RatOfInt(x)), 2)

RunningAverage(old, n, x) ==
    RatDivInt(RatAdd(RatMul(old, RatOfInt(n)), RatOfInt(x)), n + 1)

RecordMetrics(e, v, s) ==
    /\ IF RowKnown(e, v)
       THEN LET row == LiveRow(e, v)
                n == row.total_requests
                h == HistOf(e, v)
            IN /\ TotalRecorded < quota.recorded
               /\ metrics' = Put(metrics, e, PutRow(metrics[e],
                     [row EXCEPT
                        !.total_requests = n + 1,
                        !.total_tokens = row.total_tokens + s.tokens,
                        !.total_cost = row.total_cost + s.cost,
                        !.avg_latency_ms =
                            RunningAverage(row.avg_latency_ms, n, s.latency_ms),
                        !.error_rate =
                            RunningAverage(row.error_rate, n,
                                           IF s.error THEN 1 ELSE 0)]))
               /\ hist' = Put(hist, <<e, v>>,
                     [h EXCEPT !.calls = h.calls + 1,
                               !.paired = h.paired /\ h.calls = h.scores,
                               !.tokens = h.tokens + s.tokens,
                               !.latency = h.latency + s.latency_ms,
                               !.errors = h.errors + (IF s.error THEN 1 ELSE 0)])
       ELSE UNCHANGED <<metrics, hist>>
    /\ last' = Last("record_metrics", IF RowKnown(e, v) THEN "done" ELSE "ignored")
    /\ UNCHANGED <<experiments, now, remembered, stopped, quota>>

\* record_satisfaction; with a satisfaction recorded and n = 0 the division of
\* lines 177-179 raises ZeroDivisionError
RecordSatisfaction(e, v, score) ==
    /\ IF RowKnown(e, v)
       THEN LET row == RowOf(metrics[e], v)
                n == row.total_requests
                h == HistOf(e, v)
            IN /\ TotalScored < quota.scored
               /\ IF row.user_satisfaction = NoSatisfaction
                  THEN /\ metrics' = Put(metrics, e, PutRow(metrics[e],
                              [row EXCEPT !.user_satisfaction = score]))
                       /\ last' = Last("record_satisfaction", "done")
                  ELSE IF n = 0
                  THEN /\ last' = Last("record_satisfaction", "ZeroDivisionError")
                       /\ UNCHANGED metrics
                  ELSE /\ metrics' = Put(metrics, e, PutRow(metrics[e],
                              [row EXCEPT !.user_satisfaction =
                                  RatDivInt(RatAdd(RatMul(row.user_satisfaction,
                                                          RatOfInt(n - 1)),
                                                   score), n)]))
                       /\ last' = Last("record_satisfaction", "done")
               /\ hist' = Put(hist, <<e, v>>,
                     [h EXCEPT !.scores = h.scores + 1,
                               !.sum = RatAdd(h.sum, score),
                               !.paired = h.paired /\ h.calls = h.scores + 1])
       ELSE /\ last' = Last("record_satisfaction", "ignored")
            /\ UNCHANGED <<metrics, hist>>
    /\ UNCHANGED <<experiments, now, remembered, stopped, quota>>

\* get_experiment_results: the variants it lists are the rows of metrics, in
\* their order; fewer than 30 samples make every comparison "insufficient".
ResultVariants(e) ==
    IF e \notin DOMAIN experiments THEN <<>>
    ELSE [i \in 1..Len(metrics[e]) |-> metrics[e][i].variant_id]

GetExperimentResults(e) ==
    /\ e \in ExperimentIds
    /\ UNCHANGED enginevars

\* the weighted score of lines 329-333, times 10
WinnerScore(row) ==
    LET latency_part ==
            RatSub(RatOfInt(1),
                   RatMin(RatDivInt(row.avg_latency_ms, 5000), RatOfInt(1)))
        satisfaction == IF row.user_satisfaction = NoSatisfaction
                           \/ row.user_satisfaction = RatOfInt(0)
                        THEN Rat(1, 2) ELSE row.user_satisfaction
    IN RatAdd(RatAdd(RatMul(RatSub(RatOfInt(1), row.error_rate), RatOfInt(4)),
                     RatMul(latency_part, RatOfInt(3))),
              RatMul(satisfaction, RatOfInt(3)))

\* the loop of lines 327-337 over the rows from index i on
RECURSIVE BestVariant(_, _, _, _)
BestVariant(rows, i, best_variant, best_score) ==
    IF i > Len(rows) THEN best_variant
    ELSE IF best_variant = None \/ RatLess(best_score, WinnerScore(rows[i]))
    THEN BestVariant(rows, i + 1, rows[i].variant_id, WinnerScore(rows[i]))
    ELSE BestVariant(rows, i + 1, best_variant, best_score)

GetWinnerOf(e) ==
    IF e \notin DOMAIN experiments THEN None
    ELSE BestVariant(metrics[e], 1, None, RatOfInt(0))

GetWinner(e) ==
    /\ e \in ExperimentIds
    /\ UNCHANGED enginevars

\* stop_experiment that drops the experiment's metrics rows as well
StopExperimentAndForget(e) ==
    /\ IF e \in DOMAIN experiments
       THEN /\ experiments' = Put(experiments, e,
                                  [experiments[e] EXCEPT !.is_active = FALSE])
            /\ metrics' = Put(metrics, e, <<>>)
            /\ stopped' = stopped \cup {e}
       ELSE UNCHANGED <<experiments, metrics, stopped>>
    /\ last' = Last("stop_experiment",
                    IF e \in DOMAIN experiments THEN "done" ELSE "ignored")
    /\ UNCHANGED <<now, remembered, hist, quota>>

StopExperiment(e) ==
    /\ IF e \in DOMAIN experiments
       THEN /\ experiments' = Put(experiments, e,
                                  [experiments[e] EXCEPT !.is_active = FALSE])
            /\ stopped' = stopped \cup {e}
       ELSE UNCHANGED <<experiments, stopped>>
    /\ last' = Last("stop_experiment",
                    IF e \in DOMAIN experiments THEN "done" ELSE "ignored")
    /\ UNCHANGED <<metrics, now, remembered, hist, quota>>

\* No engine method touches the router or a handler.
EngineIdle == UNCHANGED <<routervars, pipevars, taskvars>>

EngineNext ==
    \/ NewInstance /\ EngineIdle
    \/ Tick /\ EngineIdle
    \/ \E x \in ExperimentInputs : CreateExperiment(x) /\ EngineIdle
    \/ \E e \in ExperimentIds, u \in UserIds :
          AssignVariantCall(e, u) /\ EngineIdle
    \/ \E e \in ExperimentIds, v \in VariantIds, s \in MetricSamples :
          RecordMetrics(e, v, s) /\ EngineIdle
    \/ \E e \in ExperimentIds, v \in VariantIds, score \in Scores :
          RecordSatisfaction(e, v, score) /\ EngineIdle
    \/ \E e \in ExperimentIds : GetExperimentResults(e) /\ EngineIdle
    \/ \E e \in ExperimentIds : GetWinner(e) /\ EngineIdle
    \/ \E e \in ExperimentIds : StopExperiment(e) /\ EngineIdle

(***************************************************************************)
(* Claims about the experiment engine                                      *)
(***************************************************************************)

\* C6: assign_variant is deterministic.  Whenever the experiment an earlier
\* call assign_variant(e, u) saw is registered unchanged, active and not past
\* its end_date, assign_variant(e, u) returns the variant that call returned,
\* whatever calls were made in between and also on a new ABTestingManager.
C6_AssignVariantDeterministic ==
    remembered # NoMemory =>
        LET e == remembered.experiment_id
        IN (/\ e \in DOMAIN experiments
            /\ experiments[e] = remembered.experiment[1]
            /\ experiments[e].is_active
            /\ (experiments[e].end_date = <<>> \/ now <= experiments[e].end_date[1]))
           => AssignVariant(e, remembered.user_id).variant_id
                 = remembered.variant_id

\* C6 witness: a call was remembered, record_metrics and record_satisfaction
\* ran and the clock moved since, and the experiment is registered as it was.
C6_Witness ==
    /\ remembered # NoMemory
    /\ remembered.variant_id = "variant_a"
    /\ remembered.experiment_id \in DOMAIN experiments
    /\ experiments[remembered.experiment_id] = remembered.experiment[1]
    /\ TotalRecorded = 1
    /\ TotalScored = 1
    /\ now = 1
    /\ AssignVariant(remembered.experiment_id, remembered.user_id).variant_id
          = "variant_a"

\* C7: an experiment stop_experiment was applied to is registered and inactive
\* ever after, and assign_variant returns None for it for every user.
C7_NoReactivation ==
    \A e \in stopped :
        /\ e \in DOMAIN experiments
        /\ ~experiments[e].is_active
        /\ \A u \in UserIds : AssignVariant(e, u) = NoVariant

\* The experiments whose split does not sum to 1.0 within 0.01 or whose split
\* keys are not its variant ids.
BadSplit(x) ==
    \/ TotalTraffic(x) < MinTotalTraffic
    \/ TotalTraffic(x) > MaxTotalTraffic
    \/ \E v \in DOMAIN x.traffic_split : v \notin VariantIdsOf(x)
    \/ \E v \in VariantIdsOf(x) : v \notin DOMAIN x.traffic_split

\* C8: create_experiment on an experiment with a bad split returns False and
\* leaves the experiments map and the metrics map as they were.
C8_BadSplitRejected ==
    [][\A x \in ExperimentInputs :
          (BadSplit(x) /\ CreateExperiment(x))
          => (/\ last'.outcome = "False"
              /\ experiments' = experiments
              /\ metrics' = metrics)]_vars

\* C8 witness: create_experiment has just returned False on an engine that
\* holds an experiment with recorded requests.
C8_Witness ==
    /\ last = Last("create_experiment", "False")
    /\ "test_exp_1" \in DOMAIN experiments
    /\ TotalRecorded > 0

\* C9: a row on which N >= 1 record_metrics calls were made since it was
\* created has total_requests = N, total_tokens = the sum of the tokens,
\* avg_latency_ms = (sum of the latencies)/N and error_rate = errors/N, and
\* every row's error_rate lies in 0..1.
C9_RowMatchesHistory ==
    \A e \in DOMAIN metrics : \A i \in 1..Len(metrics[e]) :
        LET row == metrics[e][i]
            h == HistOf(e, row.variant_id)
        IN /\ row.total_requests = h.calls
           /\ row.total_tokens = h.tokens
           /\ h.calls >= 1 =>
                 /\ row.avg_latency_ms = Rat(h.latency, h.calls)
                 /\ row.error_rate = Rat(h.errors, h.calls)
           /\ ~RatLess(row.error_rate, RatOfInt(0))
           /\ ~RatLess(RatOfInt(1), row.error_rate)

\* C9 witness: three calls on one row, one of them an error.
C9_Witness ==
    \E e \in DOMAIN metrics : \E i \in 1..Len(metrics[e]) :
        /\ metrics[e][i].total_requests = 3
        /\ metrics[e][i].error_rate = Rat(1, 3)
        /\ HistOf(e, metrics[e][i].variant_id).errors = 1

\* record_metrics or record_satisfaction is called on (e, v)
RecordCall(e, v) ==
    \/ \E s \in MetricSamples : RecordMetrics(e, v, s)
    \/ \E score \in Scores : RecordSatisfaction(e, v, score)

\* C10: record_metrics and record_satisfaction on an experiment that is not
\* registered or on a variant that is no row of it return without raising and
\* leave the experiments map and the metrics map as they were.
C10_UnknownRowIgnored ==
    [][\A e \in ExperimentIds, v \in VariantIds :
          (/\ e \notin DOMAIN experiments \/ ~HasRow(RowsOf(e), v)
           /\ RecordCall(e, v))
          => (/\ last'.outcome = "ignored"
              /\ experiments' = experiments
              /\ metrics' = metrics)]_vars

\* C10 witness: record_metrics has just returned early on an engine that holds
\* an experiment with recorded requests.
C10_Witness ==
    /\ last = Last("record_metrics", "ignored")
    /\ "test_exp_1" \in DOMAIN experiments
    /\ TotalRecorded > 0

\* C15: no call of the engine ends with an exception; create_experiment
\* answers False where it rejects.
C15_EngineNeverRaises == last.outcome \in {"True", "False", "done", "ignored"}

\* The score of the claim: the recorded satisfaction counts whenever one was
\* recorded, 0 included, and 0.5 stands in only when none was.  Times 10.
ClaimedScore(row) ==
    LET latency_part ==
            RatSub(RatOfInt(1),
                   RatMin(RatDivInt(row.avg_latency_ms, 5000), RatOfInt(1)))
        satisfaction == IF row.user_satisfaction = NoSatisfaction
                        THEN Rat(1, 2) ELSE row.user_satisfaction
    IN RatAdd(RatAdd(RatMul(RatSub(RatOfInt(1), row.error_rate), RatOfInt(4)),
                     RatMul(latency_part, RatOfInt(3))),
              RatMul(satisfaction, RatOfInt(3)))

\* The winner of the claim: the declared variant with the highest score, the
\* one declared earliest among equals.
ClaimedWinner(e) ==
    IF e \notin DOMAIN experiments THEN None
    ELSE LET vs == experiments[e].variants
             score(i) == ClaimedScore(RowOf(metrics[e], vs[i].variant_id))
             best == CHOOSE i \in 1..Len(vs) :
                        \A j \in 1..Len(vs) :
                            /\ ~RatLess(score(i), score(j))
                            /\ j < i => RatLess(score(j), score(i))
         IN vs[best].variant_id

\* C18: get_winner returns None for an experiment that is not registered and
\* otherwise the variant with the highest score, the recorded satisfaction
\* counting also when it is 0, the earliest declared variant winning a tie.
C18_WinnerMaximisesScore ==
    \A e \in ExperimentIds : GetWinnerOf(e) = ClaimedWinner(e)

\* C19: assign_variant returns None exactly for an experiment that is not
\* registered, is inactive, or has an end_date the clock is past; otherwise it
\* returns one of the declared variants of the experiment.
C19_NoneExactlyWhen ==
    \A e \in ExperimentIds, u \in UserIds :
        LET none == \/ e \notin DOMAIN experiments
                    \/ ~experiments[e].is_active
                    \/ /\ experiments[e].end_date # <<>>
                       /\ now > experiments[e].end_date[1]
        IN /\ (AssignVariant(e, u) = NoVariant) <=> none
           /\ ~none => \E i \in 1..Len(experiments[e].variants) :
                           AssignVariant(e, u) = experiments[e].variants[i]

\* C19 witness: an active experiment whose end_date is past, and whose split
\* sums to 0.99 only.
C19_Witness ==
    /\ "test_exp_1" \in DOMAIN experiments
    /\ experiments["test_exp_1"].is_active
    /\ experiments["test_exp_1"].end_date # <<>>
    /\ now > experiments["test_exp_1"].end_date[1]
    /\ TotalTraffic(experiments["test_exp_1"]) < 10000
    /\ \A u \in UserIds : AssignVariant("test_exp_1", u) = NoVariant

\* A second experiment, as test_list_experiments registers it.
ExpSecond == [ExpFixture EXCEPT !.experiment_id = "test_exp_2"]

StopIds == {"test_exp_1", "test_exp_2", "no_such_exp"}

\* The engine with two experiments, on which calls are recorded and which are
\* stopped.
StopNext ==
    \/ \E x \in {ExpFixture, ExpSecond} : CreateExperiment(x) /\ EngineIdle
    \/ \E e \in StopIds, v \in {"control", "variant_a"}, s \in MetricSamples :
          RecordMetrics(e, v, s) /\ EngineIdle
    \/ \E e \in StopIds : StopExperiment(e) /\ EngineIdle

\* C20: stop_experiment does not raise; on a registered experiment it sets
\* is_active to false and leaves everything else of the experiments map and
\* the whole metrics map as they were, so that a second application changes
\* nothing; on an id that is not registered it changes nothing.
C20_StopOnlyDeactivates ==
    [][\A e \in StopIds :
          StopExperiment(e)
          => (/\ last'.outcome \in {"done", "ignored"}
              /\ metrics' = metrics
              /\ experiments' = IF e \in DOMAIN experiments
                                THEN [experiments EXCEPT ![e].is_active = FALSE]
                                ELSE experiments
              /\ (e \in DOMAIN experiments /\ ~experiments[e].is_active)
                    => experiments' = experiments)]_vars

\* C20 witness: stop_experiment has just stopped one of two registered
\* experiments; the other is active and requests are recorded.
C20_Witness ==
    /\ last = Last("stop_experiment", "done")
    /\ {"test_exp_1", "test_exp_2"} \subseteq DOMAIN experiments
    /\ ~experiments["test_exp_1"].is_active
    /\ experiments["test_exp_2"].is_active
    /\ TotalRecorded > 0

\* The engine observed for its satisfaction scores: the fixture is registered
\* and re-registered, requests are recorded and scored.
MeanNext ==
    \/ CreateExperiment(ExpFixture) /\ EngineIdle
    \/ \E e \in ExperimentIds, v \in VariantIds, s \in MetricSamples :
          RecordMetrics(e, v, s) /\ EngineIdle
    \/ \E e \in ExperimentIds, v \in VariantIds, score \in Scores :
          RecordSatisfaction(e, v, score) /\ EngineIdle

\* C26: record_satisfaction on a registered row sets user_satisfaction to the
\* score when none was recorded, else to (old * (n - 1) + score) / n with n
\* the row's total_requests, and changes no other field of the row; and
\* while every record_metrics call on a row was followed by exactly one
\* record_satisfaction call, user_satisfaction is the mean of the scores.
C26_SatisfactionIsRunningMean ==
    /\ [][\A e \in ExperimentIds, v \in VariantIds, score \in Scores :
            (RowKnown(e, v) /\ RecordSatisfaction(e, v, score)) =>
                LET old == RowOf(metrics[e], v)
                    n == old.total_requests
                IN /\ last'.outcome = "done"
                   /\ RowOf(metrics'[e], v) =
                         [old EXCEPT !.user_satisfaction =
                             IF old.user_satisfaction = NoSatisfaction
                             THEN score
                             ELSE IF n = 0 THEN NoSatisfaction
                             ELSE RatDivInt(
                                     RatAdd(RatMul(old.user_satisfaction,
                                                   RatOfInt(n - 1)), score),
                                     n)]]_vars
    /\ [](\A e \in DOMAIN metrics : \A i \in 1..Len(metrics[e]) :
            LET h == HistOf(e, metrics[e][i].variant_id)
            IN (h.paired /\ h.scores >= 1) =>
                  metrics[e][i].user_satisfaction = RatDivInt(h.sum, h.scores))

\* The variant ids that have a metrics row of experiment e.
RowIds(e) == {RowsOf(e)[i].variant_id : i \in 1..Len(RowsOf(e))}

\* C29: for every registered experiment the variant ids that have a metrics
\* row are the variant ids of the experiment's current variant list.
C29_RowsAreDeclaredVariants ==
    \A e \in DOMAIN experiments : RowIds(e) = VariantIdsOf(experiments[e])

\* C30: no operation of the engine lowers total_requests or total_tokens of a
\* row or drops the row, and only record_metrics changes them.
C30_CountsNeverDecrease ==
    [][ NewInstance
        \/ \A e \in DOMAIN metrics : \A i \in 1..Len(metrics[e]) :
              LET old == metrics[e][i]
              IN /\ e \in DOMAIN metrics'
                 /\ HasRow(metrics'[e], old.variant_id)
                 /\ LET new == RowOf(metrics'[e], old.variant_id)
                    IN /\ new.total_requests >= old.total_requests
                       /\ new.total_tokens >= old.total_tokens
                       /\ ( new.total_requests # old.total_requests
                            \/ new.total_tokens # old.total_tokens )
                          => last'.op = "record_metrics" ]_vars

\* The engine observed for its assignments: experiments with two and three
\* variants are registered, re-registered and stopped, the clock moves, and
\* users are assigned.
WalkInputs ==
    {ExpFixture, ExpInactive, ExpOtherVariants, ExpThreeWay, ExpZeroShare}

WalkNext ==
    \/ Tick /\ EngineIdle
    \/ \E x \in WalkInputs : CreateExperiment(x) /\ EngineIdle
    \/ \E e \in ExperimentIds, u \in WalkUserIds :
          AssignVariantCall(e, u) /\ EngineIdle
    \/ \E e \in ExperimentIds, v \in VariantIds, s \in MetricSamples :
          RecordMetrics(e, v, s) /\ EngineIdle
    \/ \E e \in ExperimentIds : StopExperiment(e) /\ EngineIdle

\* The walk as the claim gives it, in exact arithmetic on 1/10000ths: the
\* first variant whose cumulative fraction exceeds b/10000, else the first one.
RECURSIVE ClaimedWalk(_, _, _, _)
ClaimedWalk(exp, i, cumulative, b) ==
    IF i > Len(exp.variants) THEN exp.variants[1]
    ELSE LET c == cumulative + exp.traffic_split[exp.variants[i].variant_id]
         IN IF c > b THEN exp.variants[i]
            ELSE ClaimedWalk(exp, i + 1, c, b)

DefaultProvider == "anthropic"

\* requests one behaviour handles
MaxRequests == 2

Message(role, content) == [role |-> role, content |-> content]

\* ChatRequest; max_tokens 0 for None, temperature in tenths
ChatRequest(e, u, p, m) ==
    [messages |-> <<Message("user", "hello")>>, model |-> m, provider |-> p,
     max_tokens |-> 0, temperature |-> 7, user_id |-> u, experiment_id |-> e]

ChatRequests ==
    { ChatRequest("test_exp_1", "user_0", None, None),
      ChatRequest("test_exp_1", "user_123", None, None),
      ChatRequest(None, None, None, None),
      ChatRequest(None, None, "openai", "gpt-4"),
      ChatRequest(None, None, UnknownProvider, None) }

\* what the handlers record for a request that succeeded and for one that failed
SampleSuccess == [tokens |-> 100, cost |-> 10, latency_ms |-> 500, error |-> FALSE]

SampleError == [tokens |-> 0, cost |-> 0, latency_ms |-> 800, error |-> TRUE]

\* event_generator records cost=0
SampleStreamed == [tokens |-> 100, cost |-> 0, latency_ms |-> 500, error |-> FALSE]

\* lines 196-206: the variant's configuration is written into the request
OverrideRequest(r, v) ==
    [r EXCEPT !.provider = v.provider,
              !.model = v.model,
              !.temperature = v.temperature,
              !.max_tokens = IF v.max_tokens # 0 THEN v.max_tokens ELSE @,
              !.messages = IF v.system_prompt # None
                           THEN <<Message("system", v.system_prompt)>> \o @
                           ELSE @]

\* lines 326-330
OverrideStreamRequest(r, v) ==
    [r EXCEPT !.provider = v.provider,
              !.model = v.model,
              !.temperature = v.temperature]

\* CacheManager._generate_key: the digest of the four parameters
CacheKey(messages, m, temperature, max_tokens) ==
    <<messages, m, temperature, max_tokens>>

\* request.model or ""
ModelOrEmpty(m) == IF m = None THEN "" ELSE m

\* the variant recorded for: if variant and request.experiment_id
Assigned == variant # NoVariant /\ request.experiment_id # None

NoRequest == None

\* ChatResponse, or the exception in its place
Reply(p, m, cached, exception) ==
    [provider |-> p, model |-> m, cached |-> cached, exception |-> exception]

NoReply == Reply(None, None, FALSE, None)

PipelineInit ==
    /\ pc = "idle"
    /\ endpoint = None
    /\ request = NoRequest
    /\ sent = NoRequest
    /\ variant = NoVariant
    /\ cache = EmptyDict
    /\ recorded = 0
    /\ result = NoReply
    /\ served = 0

\* POST /chat/completions or /chat/completions/stream arrives.  PII redaction
\* rewrites message contents only and is left out.
ReceiveRequest(ep, r) ==
    /\ pc = "idle"
    /\ served < MaxRequests
    /\ pc' = "assign"
    /\ endpoint' = ep
    /\ request' = r
    /\ sent' = r
    /\ variant' = NoVariant
    /\ recorded' = 0
    /\ result' = NoReply
    /\ UNCHANGED <<routervars, taskvars, enginevars, cache, served>>

\* A/B testing variant assignment (settings.enable_ab_testing is on)
AssignStep ==
    /\ pc = "assign"
    /\ LET v == IF request.experiment_id # None /\ request.user_id # None
                THEN AssignVariant(request.experiment_id, request.user_id)
                ELSE NoVariant
       IN /\ variant' = v
          /\ request' = IF v = NoVariant THEN request
                        ELSE IF endpoint = "complete" THEN OverrideRequest(request, v)
                        ELSE OverrideStreamRequest(request, v)
    /\ pc' = IF endpoint = "complete" THEN "analyze" ELSE "router"
    /\ UNCHANGED <<routervars, taskvars, enginevars, endpoint, sent, cache, recorded,
                   result, served>>

\* provider = provider_manager.get_provider(request.provider), which raises
\* ValueError for a name that is not registered; then analyze_context
AnalyzeContext ==
    /\ pc = "analyze"
    /\ LET name == IF request.provider = None THEN DefaultProvider
                   ELSE request.provider
       IN pc' = IF name \in providers THEN "cache" ELSE "except"
    /\ UNCHANGED <<routervars, taskvars, enginevars, endpoint, request, sent, variant,
                   cache, recorded, result, served>>

\* cached_response = cache_manager.get(...); if cached_response: return it
CheckCache ==
    /\ pc = "cache"
    /\ LET key == CacheKey(request.messages, ModelOrEmpty(request.model),
                           request.temperature, request.max_tokens)
       IN IF key \in DOMAIN cache
          THEN /\ pc' = "done"
               /\ result' = [cache[key] EXCEPT !.cached = TRUE]
          ELSE /\ pc' = "router"
               /\ UNCHANGED result
    /\ UNCHANGED <<routervars, taskvars, enginevars, endpoint, request, sent, variant,
                   cache, recorded, served>>

\* provider_manager.complete_with_fallback(...) or stream_with_fallback(...)
\* is called with the request's provider and model
CallRouter ==
    /\ pc = "router"
    /\ BeginCall(endpoint, request.provider, request.model)

\* The router call's locals are gone once it has returned or raised.
CallGone ==
    /\ mode' = "idle"
    /\ rpc' = "idle"
    /\ provider_name' = None
    /\ model' = None
    /\ provider_order' = <<>>
    /\ attempt' = 1
    /\ provider_model' = None
    /\ attempts' = <<>>
    /\ last_error' = NoLastError
    /\ wait_time' = 0
    /\ response' = NoResponse
    /\ error' = NoError
    /\ log' = <<>>

\* the router call is over: the handler has its response, or the exception,
\* which the streaming handler catches before its finally block.
RouterDone ==
    /\ pc = "router"
    /\ CallOver
    /\ result' = IF rpc = "returned"
                 THEN Reply(response.provider, response.model, FALSE, None)
                 ELSE Reply(None, None, FALSE, error.kind)
    /\ pc' = IF endpoint = "stream" THEN "finally"
             ELSE IF rpc = "returned" THEN "cache_set" ELSE "except"
    /\ CallGone
    /\ UNCHANGED <<config, taskvars, enginevars, endpoint, request, sent, variant,
                   cache, recorded, served>>

\* cache_manager.set(request.messages, response.model, ...)
CacheResponse ==
    /\ pc = "cache_set"
    /\ cache' = Put(cache,
                    CacheKey(request.messages, result.model,
                             request.temperature, request.max_tokens),
                    result)
    /\ pc' = "tools"
    /\ UNCHANGED <<routervars, taskvars, enginevars, endpoint, request, sent, variant,
                   recorded, result, served>>

\* tool calls: execute_tool_calls turns every tool failure into a result
HandleToolCalls ==
    /\ pc = "tools"
    /\ pc' = "record"
    /\ UNCHANGED <<routervars, taskvars, enginevars, endpoint, request, sent, variant,
                   cache, recorded, result, served>>

\* the handler calls record_metrics with sample s when a variant was assigned
RecordFor(s) ==
    IF Assigned
    THEN /\ RecordMetrics(request.experiment_id, variant.variant_id, s)
         /\ recorded' = recorded + 1
    ELSE UNCHANGED <<enginevars, recorded>>

\* Record A/B testing metrics; return response
RecordSuccess ==
    /\ pc = "record"
    /\ RecordFor(SampleSuccess)
    /\ pc' = "done"
    /\ UNCHANGED <<routervars, taskvars, endpoint, request, sent, variant, cache, result,
                   served>>

\* except Exception: record the error; raise HTTPException(status_code=500)
RecordFailure ==
    /\ pc = "except"
    /\ RecordFor(SampleError)
    /\ result' = Reply(None, None, FALSE, "HTTPException")
    /\ pc' = "done"
    /\ UNCHANGED <<routervars, taskvars, endpoint, request, sent, variant, cache, served>>

\* event_generator's finally block: record, then send [DONE]
StreamFinally ==
    /\ pc = "finally"
    /\ RecordFor(IF result.exception # None THEN SampleError ELSE SampleStreamed)
    /\ pc' = "done"
    /\ UNCHANGED <<routervars, taskvars, endpoint, request, sent, variant, cache, result,
                   served>>

\* The request is over; the handler's locals are gone.
RequestOver ==
    /\ pc = "done"
    /\ pc' = "idle"
    /\ served' = served + 1
    /\ endpoint' = None
    /\ request' = NoRequest
    /\ sent' = NoRequest
    /\ variant' = NoVariant
    /\ recorded' = 0
    /\ result' = NoReply
    /\ UNCHANGED <<routervars, taskvars, enginevars, cache>>

\* POST /experiments and POST /experiments/{id}/stop are handled between two
\* chat requests.
ExperimentAdmin ==
    /\ pc = "idle"
    /\ \/ \E x \in {ExpFixture, ExpOtherVariants} : CreateExperiment(x)
       \/ \E e \in ExperimentIds : StopExperiment(e)
    /\ UNCHANGED <<routervars, taskvars, pipevars>>

PipelineNext ==
    \/ \E ep \in {"complete", "stream"}, r \in ChatRequests : ReceiveRequest(ep, r)
    \/ AssignStep
    \/ AnalyzeContext
    \/ CheckCache
    \/ CallRouter
    \/ SkipUnregistered
    \/ CallProvider
    \/ CompleteReturns
    \/ StreamYields
    \/ StreamReturns
    \/ RateLimited
    \/ SleepOver
    \/ ProviderFails
    \/ AllProvidersFailed
    \/ RouterDone
    \/ CacheResponse
    \/ HandleToolCalls
    \/ RecordSuccess
    \/ RecordFailure
    \/ StreamFinally
    \/ RequestOver
    \/ ExperimentAdmin

(***************************************************************************)
(* Requests handled concurrently.  Every handler is a coroutine of the one *)
(* event loop of the process: it runs until it awaits (the router call,    *)
(* the tool calls) and another handler runs meanwhile.  The methods of     *)
(* ABTestingManager are plain functions without an await, so each call is  *)
(* one step.                                                               *)
(***************************************************************************)

\* requests in flight at one time
MaxTasks == 2

Tasks == 1..MaxTasks

NoSample == [tokens |-> 0, cost |-> 0, latency_ms |-> 0, error |-> FALSE]

\* a handler that has not started
IdleTask ==
    [at |-> "idle", experiment_id |-> None, variant_id |-> None,
     sample |-> NoSample, concurrent |-> FALSE]

TasksInit == inflight = [t \in Tasks |-> IdleTask]

\* A handler runs from its entry to the await of the router call: it calls
\* assign_variant and keeps the variant.  concurrent tells that another
\* request was in flight at that time.
TaskStarts(t, e, u) ==
    /\ inflight[t].at = "idle"
    /\ inflight' = [inflight EXCEPT ![t] =
          [at |-> "await", experiment_id |-> e,
           variant_id |-> AssignVariant(e, u).variant_id,
           sample |-> NoSample,
           concurrent |-> \E o \in Tasks \ {t} :
                             inflight[o].at \in {"await", "record"}]]
    /\ UNCHANGED <<routervars, enginevars, pipevars>>

\* The router call returns or raises: the handler has what it will record.
TaskResumes(t, s) ==
    /\ inflight[t].at = "await"
    /\ inflight' = [inflight EXCEPT ![t].at = "record", ![t].sample = s]
    /\ UNCHANGED <<routervars, enginevars, pipevars>>

\* if variant and request.experiment_id: ab_testing_manager.record_metrics(...)
TaskRecords(t) ==
    /\ inflight[t].at = "record"
    /\ IF inflight[t].variant_id # None
       THEN RecordMetrics(inflight[t].experiment_id, inflight[t].variant_id,
                          inflight[t].sample)
       ELSE UNCHANGED enginevars
    /\ inflight' = [inflight EXCEPT ![t].at = "done"]
    /\ UNCHANGED <<routervars, pipevars>>

\* POST /experiments registers the experiment before the requests arrive;
\* record_satisfaction and stop_experiment are called while they are handled.
ConcurrentNext ==
    \/ /\ experiments = EmptyDict
       /\ CreateExperiment(ExpFixture)
       /\ EngineIdle
    \/ \E t \in Tasks, e \in ExperimentIds, u \in UserIds : TaskStarts(t, e, u)
    \/ \E t \in Tasks, s \in {SampleSuccess, SampleError} : TaskResumes(t, s)
    \/ \E t \in Tasks : TaskRecords(t)
    \/ \E v \in VariantIds, score \in Scores :
          RecordSatisfaction("test_exp_1", v, score) /\ EngineIdle
    \/ StopExperiment("test_exp_1") /\ EngineIdle

\* the handlers that have recorded on row (e, v)
DoneOn(e, v) ==
    {t \in Tasks : /\ inflight[t].at = "done"
                   /\ inflight[t].experiment_id = e
                   /\ inflight[t].variant_id = v}

\* C14: whatever the interleaving of the handlers, the k record_metrics calls
\* that have completed on a row are all in it: total_requests = k,
\* total_tokens is the sum of their tokens, avg_latency_ms and error_rate are
\* the mean latency and the share of errors, which is what the k calls give
\* when they are made one at a time.
C14_NoLostUpdate ==
    \A e \in DOMAIN metrics : \A i \in 1..Len(metrics[e]) :
        LET row == metrics[e][i]
            done == DoneOn(e, row.variant_id)
            k == Cardinality(done)
        IN /\ row.total_requests = k
           /\ row.total_tokens =
                 SumOver([t \in Tasks |-> inflight[t].sample.tokens], done)
           /\ k >= 1 =>
                 /\ row.avg_latency_ms =
                       Rat(SumOver([t \in Tasks |-> inflight[t].sample.latency_ms],
                                   done), k)
                 /\ row.error_rate =
                       Rat(Cardinality({t \in done : inflight[t].sample.error}), k)

\* C14 witness: two handlers that were in flight together have both recorded
\* on the same row, one an error and one a success, with a satisfaction score
\* recorded on that row as well.
C14_Witness ==
    \E t1, t2 \in Tasks :
        /\ t1 # t2
        /\ inflight[t2].concurrent
        /\ inflight[t1].at = "done" /\ inflight[t2].at = "done"
        /\ inflight[t1].experiment_id = "test_exp_1"
        /\ inflight[t2].experiment_id = "test_exp_1"
        /\ inflight[t1].variant_id = "control"
        /\ inflight[t2].variant_id = "control"
        /\ inflight[t1].sample.error /\ ~inflight[t2].sample.error
        /\ RowOf(metrics["test_exp_1"], "control").total_requests = 2
        /\ RowOf(metrics["test_exp_1"], "control").user_satisfaction
              # NoSatisfaction

(***************************************************************************)
(* Claims about the request handlers                                       *)
(***************************************************************************)

\* C5: when a handler has finished a request a variant was assigned to, it
\* has called record_metrics for it exactly once, on every path.
C5_RecordedExactlyOnce ==
    (pc = "done" /\ Assigned) => recorded = 1

\* cache_manager.get with the parameters the handler passes for request r
CacheGet(r) ==
    LET key == CacheKey(r.messages, ModelOrEmpty(r.model), r.temperature,
                        r.max_tokens)
    IN IF key \in DOMAIN cache THEN [cache[key] EXCEPT !.cached = TRUE]
       ELSE NoReply

\* C11: once a non-streaming request has missed the cache, been answered by the
\* router and been stored, a lookup with the same messages, model, temperature
\* and max_tokens hits and gives the router's provider and model, cached=true.
C11_ReplayHitsCache ==
    pc = "tools" => CacheGet(request) = [result EXCEPT !.cached = TRUE]

\* C16: the analysis step fails no request: the non-streaming handler reaches
\* its except block only with the error of the router, which lies behind the
\* cache lookup.
C16_AnalysisNeverBlocks ==
    (endpoint = "complete" /\ pc = "except") => result.exception # None

\* C17: in both handlers the request handed to the router when a variant is
\* assigned carries the variant's provider, model and temperature, its
\* max_tokens when set, and, when it has a system prompt, the messages as sent
\* behind one new leading system message.
C17_VariantOverridesRequest ==
    (pc = "router" /\ variant # NoVariant) =>
        /\ request.provider = variant.provider
        /\ request.model = variant.model
        /\ request.temperature = variant.temperature
        /\ variant.max_tokens # 0 => request.max_tokens = variant.max_tokens
        /\ request.messages =
              IF variant.system_prompt # None
              THEN <<Message("system", variant.system_prompt)>> \o sent.messages
              ELSE sent.messages

\* C28: a handler that was assigned a variant leaves the request object it
\* was given as it was sent: provider, model, temperature, max_tokens and the
\* message list are the original ones up to the end of the request.
C28_RequestNotMutated ==
    (pc \notin {"idle", "assign"} /\ variant # NoVariant) =>
        /\ request.provider = sent.provider
        /\ request.model = sent.model
        /\ request.temperature = sent.temperature
        /\ request.max_tokens = sent.max_tokens
        /\ request.messages = sent.messages

Quota(r, s, k) == [recorded |-> r, scored |-> s, remembered |-> k]

\* The router alone, on an engine that is never called.
InitRouter ==
    /\ RouterInit
    /\ EngineInit
    /\ PipelineInit
    /\ TasksInit
    /\ quota = Quota(0, 0, 0)

SpecRouter == InitRouter /\ [][RouterNext]_vars

\* The router alone with providers that may hang; the event loop runs every
\* step of the router that can run.
SpecHang == InitRouter /\ [][HangNext]_vars /\ WF_vars(RouterNext)

\* The engine alone; the router's registry is the one of the default settings
\* with every provider configured.
RouterIdle ==
    /\ RouterInit
    /\ providers = {"openai", "anthropic", "azure"}
    /\ supported_models["azure"] = AzureModels
    /\ enable_fallback

InitEngine ==
    /\ RouterIdle
    /\ EngineInit
    /\ PipelineInit
    /\ TasksInit
    /\ quota = Quota(MaxInterleaved, MaxInterleaved, 0)

SpecEngine == InitEngine /\ [][EngineNext]_vars

\* The engine with many record_metrics calls.
InitMetrics ==
    /\ RouterIdle
    /\ EngineInit
    /\ PipelineInit
    /\ TasksInit
    /\ quota = Quota(MaxRecorded, 0, 0)

SpecMetrics == InitMetrics /\ [][EngineNext]_vars

\* The engine with one assign_variant call remembered.
InitAssignment ==
    /\ RouterIdle
    /\ EngineInit
    /\ PipelineInit
    /\ TasksInit
    /\ quota = Quota(MaxInterleaved, MaxInterleaved, 1)

SpecAssignment == InitAssignment /\ [][EngineNext]_vars

\* The engine with repeated record_satisfaction calls.
InitSatisfaction ==
    /\ RouterIdle
    /\ EngineInit
    /\ PipelineInit
    /\ TasksInit
    /\ quota = Quota(MaxInterleaved, MaxScored, 0)

SpecSatisfaction == InitSatisfaction /\ [][EngineNext]_vars

\* The engine with record_metrics and record_satisfaction calls in pairs.
InitMean ==
    /\ RouterIdle
    /\ EngineInit
    /\ PipelineInit
    /\ TasksInit
    /\ quota = Quota(MaxPaired, MaxPaired, 0)

SpecMean == InitMean /\ [][MeanNext]_vars

\* The engine with two experiments.
InitStop ==
    /\ RouterIdle
    /\ EngineInit
    /\ PipelineInit
    /\ TasksInit
    /\ quota = Quota(MaxInterleaved, 0, 0)

SpecStop == InitStop /\ [][StopNext]_vars

\* The engine with experiments of three variants and a user on a boundary.
InitWalk ==
    /\ RouterIdle
    /\ EngineInit
    /\ PipelineInit
    /\ TasksInit
    /\ quota = Quota(MaxInterleaved, 0, 1)

SpecWalk == InitWalk /\ [][WalkNext]_vars

\* The handlers, the router they call and the engine they record in; two
\* providers are configured.
InitPipeline ==
    /\ RouterInit
    /\ providers = {"openai", "anthropic"}
    /\ supported_models["azure"] = AzureModels
    /\ enable_fallback
    /\ EngineInit
    /\ PipelineInit
    /\ TasksInit
    /\ quota = Quota(MaxRequests + MaxRequests, 0, 0)

SpecPipeline == InitPipeline /\ [][PipelineNext]_vars

\* Concurrent handlers on one engine.
InitConcurrent ==
    /\ RouterIdle
    /\ EngineInit
    /\ PipelineInit
    /\ TasksInit
    /\ quota = Quota(MaxTasks, MaxInterleaved, 0)

SpecConcurrent == InitConcurrent /\ [][ConcurrentNext]_vars

====
